---- MODULE Spec2Model ----
(***************************************************************************)
(* A model of the BDD100K lane-marking evaluation (bdd100k/eval/lane.py)   *)
(* and of the mask-intersection fixture of bdd100k/eval/mots_test.py.      *)
(*                                                                         *)
(* Scores are exact rationals <<numerator, denominator>> in lowest terms;  *)
(* the floating point rounding of the program is not modelled.             *)
(***************************************************************************)
EXTENDS Integers, Sequences, FiniteSets, TLC

VARIABLES
    \* ---- eval_lane_per_cat (one call of the pure function) ----
    cat_pc,        \* position inside eval_lane_per_cat
    gt_mask,       \* local gt_mask: the input mask, then its skeleton
    pd_mask,       \* local pd_mask: the input mask, then its skeleton
    cat_ths,       \* argument bound_ths
    f_scores,      \* local f_scores / the returned list
    gt_zero,       \* history: the gt_mask argument was all-zero
    pd_zero,       \* history: the pd_mask argument was all-zero
    n_div,         \* history: precision/recall divisions performed
    \* ---- evaluate_lane_marking ----
    pc,            \* position inside evaluate_lane_marking
    sub_task_cats, \* the module-level dict of category-name lists
    request,       \* argument bound_ths as passed by the caller
    bound_ths,     \* local bound_ths after sorted(set(...))
    gt_files,      \* list_files(gt_dir)
    pred_files,    \* list_files(pred_dir)
    nproc,         \* argument nproc
    worker_cats,   \* sub_task_cats as seen by the pool's worker processes
    taskqueue,     \* chunks not yet taken by a worker
    busy,          \* worker -> the chunk it holds (0: idle)
    map_value,     \* MapResult._value: result list, or the stored exception
    map_success,   \* MapResult._success
    number_left,   \* MapResult._number_left
    order,         \* history: chunk numbers in the order they completed
    scored,        \* history: frame pairs handed to eval_lane_per_frame
    task2arr_list, \* the list starmap returned
    task2arr,      \* merge_results' return value
    f_score_dict,  \* render_results' return value
    err,           \* the exception that left evaluate_lane_marking ("" none)
    calls,         \* calls of evaluate_lane_marking made in this process
    call_limit,    \* calls of evaluate_lane_marking the process will make
    first_dict,    \* history: what the first call returned
    \* ---- mask_intersection_rate ----
    m_pc, m_swap, m_pos, joint, area_a, area_b, ious, ioas

catVars  == <<cat_pc, gt_mask, pd_mask, cat_ths, f_scores, gt_zero, pd_zero, n_div>>
evalVars == <<pc, sub_task_cats, request, bound_ths, gt_files, pred_files, nproc,
              worker_cats, taskqueue, busy, map_value, map_success, number_left,
              order, scored, task2arr_list, task2arr, f_score_dict, err, calls,
              call_limit, first_dict>>
motsVars == <<m_pc, m_swap, m_pos, joint, area_a, area_b, ious, ioas>>
vars     == <<catVars, evalVars, motsVars>>

-----------------------------------------------------------------------------
(* Bounds of the model. *)

\* width of the masks given to eval_lane_per_cat
Width == 3
\* most foreground pixels in a mask given to eval_lane_per_cat
MaxPix == 2
\* largest boundary threshold
MaxTh == 2

Height == (Width + 1) \div 2
Pixels == (0 .. Width - 1) \X (0 .. Height - 1)

-----------------------------------------------------------------------------
(* Exact arithmetic. *)

Abs(x) == IF x < 0 THEN -x ELSE x

RECURSIVE GCD(_, _)
GCD(a, b) == IF b = 0 THEN a ELSE GCD(b, a % b)

\* the rational n/d (d # 0) in lowest terms with a positive denominator
Rat(n, d) ==
    LET g == GCD(Abs(n), Abs(d))
        s == IF d < 0 THEN -1 ELSE 1
    IN  <<s * (n \div g), s * (d \div g)>>

RAdd(x, y) == Rat(x[1] * y[2] + y[1] * x[2], x[2] * y[2])
RMul(x, y) == Rat(x[1] * y[1], x[2] * y[2])
RDiv(x, y) == Rat(x[1] * y[2], x[2] * y[1])
RLeq(x, y) == x[1] * y[2] <= y[1] * x[2]
Zero == Rat(0, 1)
One  == Rat(1, 1)

RECURSIVE RSum(_)
RSum(s) == IF s = <<>> THEN Zero ELSE RAdd(Head(s), RSum(Tail(s)))

\* numpy's mean of a non-empty vector
RMean(s) == RDiv(RSum(s), Rat(Len(s), 1))

\* the elements of a finite set of integers in ascending order
RECURSIVE Ascending(_)
Ascending(S) ==
    IF S = {} THEN <<>>
    ELSE LET m == CHOOSE x \in S : \A y \in S : x <= y
         IN  <<m>> \o Ascending(S \ {m})

Range(s) == {s[i] : i \in DOMAIN s}

-----------------------------------------------------------------------------
(* eval_lane_per_cat *)

\* faulty variant of disk, used to test the properties' sensitivity: the outline of the circle instead of the filled disk
disk_outline(radius) ==
    {o \in (-radius .. radius) \X (-radius .. radius) :
        o[1] * o[1] + o[2] * o[2] = radius * radius}

\* skimage.morphology.disk(radius): the offsets of the structuring element
disk(radius) ==
    {o \in (-radius .. radius) \X (-radius .. radius) :
        o[1] * o[1] + o[2] * o[2] <= radius * radius}

\* cv2.dilate(mask, kernel) on an image whose pixels are `image`
dilate(mask, kernel, image) ==
    {p \in image : \E o \in kernel : <<p[1] + o[1], p[2] + o[2]>> \in mask}

\* a mask that lies in one pixel row is already one pixel wide
AlreadyThin(mask) == \A p, q \in mask : p[2] = q[2]

\* skimage.morphology.skeletonize(mask): what thinning may return.  An
\* already thin mask is returned as it is; otherwise thinning removes pixels
\* of the mask and keeps every connected component, so some pixel remains.
skeletonize(mask) ==
    IF AlreadyThin(mask) THEN {mask}
    ELSE {s \in SUBSET mask : s # {}}

\* lines 125-139: the F-score of two non-empty skeletons at one threshold
F_score(gt, pd, bound_th, image) ==
    LET kernel    == disk(bound_th)
        gt_dil    == dilate(gt, kernel, image)
        pd_dil    == dilate(pd, kernel, image)
        gt_match  == gt \cap pd_dil
        pd_match  == pd \cap gt_dil
        precision == Rat(Cardinality(pd_match), Cardinality(pd))
        recall    == Rat(Cardinality(gt_match), Cardinality(gt))
    IN  IF RAdd(precision, recall) = Zero THEN Zero
        ELSE RDiv(RMul(Rat(2, 1), RMul(precision, recall)),
                  RAdd(precision, recall))

\* faulty variant of early_return, used to test the properties' sensitivity: the test "or" is made before the test "and"
early_return_or_first(gt, pd) ==
    LET n_gt == Cardinality(gt)
        n_pd == Cardinality(pd)
    IN  IF n_gt = 0 \/ n_pd = 0 THEN <<Zero>>
        ELSE IF n_gt = 0 /\ n_pd = 0 THEN <<One>>
        ELSE <<>>

\* lines 115-121: the score every threshold gets when a skeleton is empty,
\* <<>> when neither is
early_return(gt, pd) ==
    LET n_gt == Cardinality(gt)
        n_pd == Cardinality(pd)
    IN  IF n_gt = 0 /\ n_pd = 0 THEN <<One>>
        ELSE IF n_gt = 0 \/ n_pd = 0 THEN <<Zero>>
        ELSE <<>>

\* eval_lane_per_cat as a function, on masks whose thinning is determined
eval_lane_per_cat(gt, pd, ths, image) ==
    LET gt_skel == CHOOSE s \in skeletonize(gt) : TRUE
        pd_skel == CHOOSE s \in skeletonize(pd) : TRUE
        early   == early_return(gt_skel, pd_skel)
    IN  IF early # <<>> THEN [i \in DOMAIN ths |-> early[1]]
        ELSE [i \in DOMAIN ths |-> F_score(gt_skel, pd_skel, ths[i], image)]

Masks == {m \in SUBSET Pixels : Cardinality(m) <= MaxPix}
ThLists == {Ascending(S) : S \in SUBSET (0 .. MaxTh)}

CatIdle ==
    /\ cat_pc = "idle" /\ gt_mask = {} /\ pd_mask = {} /\ cat_ths = <<>>
    /\ f_scores = <<>> /\ gt_zero = TRUE /\ pd_zero = TRUE /\ n_div = 0

CatInit ==
    /\ cat_pc = "start"
    /\ gt_mask \in Masks
    /\ pd_mask \in Masks
    /\ cat_ths \in ThLists
    /\ f_scores = <<>>
    /\ gt_zero = (gt_mask = {})
    /\ pd_zero = (pd_mask = {})
    /\ n_div = 0

\* lines 111-116
CatSkeletonize ==
    /\ cat_pc = "start"
    /\ gt_mask' \in skeletonize(gt_mask)
    /\ pd_mask' \in skeletonize(pd_mask)
    /\ cat_pc' = "check"
    /\ UNCHANGED <<cat_ths, f_scores, gt_zero, pd_zero, n_div>>
    /\ UNCHANGED <<evalVars, motsVars>>

\* lines 118-121
CatEarlyReturn ==
    /\ cat_pc = "check"
    /\ early_return(gt_mask, pd_mask) # <<>>
    /\ f_scores' = [i \in DOMAIN cat_ths |-> early_return(gt_mask, pd_mask)[1]]
    /\ cat_pc' = "done"
    /\ UNCHANGED <<gt_mask, pd_mask, cat_ths, gt_zero, pd_zero, n_div>>
    /\ UNCHANGED <<evalVars, motsVars>>

\* line 123
CatEnterLoop ==
    /\ cat_pc = "check"
    /\ early_return(gt_mask, pd_mask) = <<>>
    /\ f_scores' = <<>>
    /\ cat_pc' = "loop"
    /\ UNCHANGED <<gt_mask, pd_mask, cat_ths, gt_zero, pd_zero, n_div>>
    /\ UNCHANGED <<evalVars, motsVars>>

\* lines 124-140: one iteration of the loop over bound_ths
CatScore ==
    /\ cat_pc = "loop"
    /\ Len(f_scores) < Len(cat_ths)
    /\ f_scores' = Append(f_scores,
                     F_score(gt_mask, pd_mask, cat_ths[Len(f_scores) + 1], Pixels))
    /\ n_div' = n_div + 2
    /\ UNCHANGED <<cat_pc, gt_mask, pd_mask, cat_ths, gt_zero, pd_zero>>
    /\ UNCHANGED <<evalVars, motsVars>>

\* line 142
CatReturn ==
    /\ cat_pc = "loop"
    /\ Len(f_scores) = Len(cat_ths)
    /\ cat_pc' = "done"
    /\ UNCHANGED <<gt_mask, pd_mask, cat_ths, f_scores, gt_zero, pd_zero, n_div>>
    /\ UNCHANGED <<evalVars, motsVars>>

CatNext ==
    \/ CatSkeletonize
    \/ CatEarlyReturn
    \/ CatEnterLoop
    \/ CatScore
    \/ CatReturn

-----------------------------------------------------------------------------
(* The lane label configuration (bdd100k/label/label.py) and file contents. *)

\* frames scored are one pixel row of FrameW packed bytes
FrameW == 3
\* most calls of evaluate_lane_marking in one process
MaxCalls == 2
\* longest bound_ths argument
MaxReq == 2
\* most ground-truth files in the runs that vary the thresholds
SmallFiles == 2
\* largest difference between the two file counts
MaxDiff == 1
\* ground-truth files beyond one full chunk in the runs of the pool
ExtraFiles == 1
\* largest pool
MaxProc == 2

AVG == "avg"
TOTAL == "total"
chunksize == 10

lane_directions == <<"parallel", "vertical">>
lane_styles == <<"solid", "dashed">>
lane_categories ==
    <<"crosswalk", "double other", "double white", "double yellow",
      "road curb", "single other", "single white", "single yellow">>

TaskNames == {"direction", "style", "category"}

\* lines 95-99: sub_task_funcs, as offset and width of the bit field
sub_task_funcs ==
    [direction |-> [offset |-> 5, width |-> 1],
     style     |-> [offset |-> 4, width |-> 1],
     category  |-> [offset |-> 0, width |-> 3]]

\* lines 100-104: sub_task_cats as the module is imported
InitialCats ==
    [direction |-> lane_directions,
     style     |-> lane_styles,
     category  |-> lane_categories]

Pow2(n) == IF n = 0 THEN 1 ELSE IF n = 1 THEN 2 ELSE IF n = 2 THEN 4
           ELSE IF n = 3 THEN 8 ELSE IF n = 4 THEN 16 ELSE 32

\* line 84: ((byte >> offset) & ((1 << width) - 1)) == value
get_lane_class(byte, value, offset, width) ==
    ((byte \div Pow2(offset)) % Pow2(width)) = value

\* str.replace(" ", "_") on the names that occur
Underscore(name) ==
    CASE name = "double other"  -> "double_other"
      [] name = "double white"  -> "double_white"
      [] name = "double yellow" -> "double_yellow"
      [] name = "road curb"     -> "road_curb"
      [] name = "single other"  -> "single_other"
      [] name = "single white"  -> "single_white"
      [] name = "single yellow" -> "single_yellow"
      [] OTHER -> name

\* Files are numbered; file 0 cannot be decoded (Image.open raises), file k
\* (k >= 1) shows one lane pixel in column k - 1 on background (255).
FileIds == 0 .. FrameW
FramePixels == (0 .. FrameW - 1) \X {0}
LaneByte(k) == IF k % 2 = 1 THEN 6 ELSE 50
ImageOf(k) == [x \in 0 .. FrameW - 1 |-> IF x = k - 1 THEN LaneByte(k) ELSE 255]
Decodable(k) == k # 0

\* lines 156-157: class_func(byte, value) of one sub-task as a pixel set
class_mask(image, task_name, value) ==
    {p \in FramePixels :
        get_lane_class(image[p[1]], value,
                       sub_task_funcs[task_name].offset,
                       sub_task_funcs[task_name].width)}

\* lines 149-162: eval_lane_per_frame of two decodable files, with the
\* category lists `cats` the evaluating process holds
eval_lane_per_frame(gt_file, pred_file, ths, cats) ==
    LET gt_byte   == ImageOf(gt_file)
        pred_byte == ImageOf(pred_file)
    IN  [task_name \in TaskNames |->
            [row \in 1 .. Len(cats[task_name]) |->
                eval_lane_per_cat(class_mask(gt_byte, task_name, row - 1),
                                  class_mask(pred_byte, task_name, row - 1),
                                  ths, FramePixels)]]

-----------------------------------------------------------------------------
(* merge_results and render_results *)

Scale100(row) == [j \in DOMAIN row |-> RMul(row[j], Rat(100, 1))]

\* lines 169-174: element-wise mean over the frames, per sub-task
frame_mean(task2arr_imgs, task_name) ==
    LET first == task2arr_imgs[1][task_name]
    IN  [c \in DOMAIN first |->
            [j \in DOMAIN first[c] |->
                RMean([f \in DOMAIN task2arr_imgs |->
                          task2arr_imgs[f][task_name][c][j]])]]

\* line 178: arr2d.mean(axis=0, keepdims=True)
column_mean(arr2d) ==
    [j \in DOMAIN arr2d[1] |-> RMean([c \in DOMAIN arr2d |-> arr2d[c][j]])]

\* line 179: the rows of one sub-task after the loop
concat_rows(arr_mean, arr2d) == <<arr_mean>> \o arr2d

\* line 181: the row of each sub-task that enters the total
total_input(arr2d) == arr2d[Len(arr2d)]

\* lines 165-184, on a non-empty list
merge_results(task2arr_imgs) ==
    LET scaled(t) == [c \in DOMAIN frame_mean(task2arr_imgs, t) |->
                         Scale100(frame_mean(task2arr_imgs, t)[c])]
        per_task  == [t \in TaskNames |->
                         concat_rows(column_mean(scaled(t)), scaled(t))]
        names     == <<"direction", "style", "category">>
        avg_arr   == [k \in 1 .. 3 |-> total_input(per_task[names[k]])]
    IN  [t \in TaskNames \cup {TOTAL} |->
            IF t = TOTAL THEN <<column_mean(avg_arr)>> ELSE per_task[t]]

\* lines 255-257: the lists after cats.append(AVG) on each of them
with_avg(cats) == [t \in DOMAIN cats |-> Append(cats[t], AVG)]

\* line 255: sub_task_cats.copy() copies the dict and shares its lists, so
\* the appends of lines 256-257 reach the module-level lists
cats_after_call(cats) == with_avg(cats)

\* lines 255-258: all_task_cats as render_results receives it
all_task_cats_of(cats) ==
    [t \in TaskNames \cup {TOTAL} |->
        IF t = TOTAL THEN <<AVG>> ELSE with_avg(cats)[t]]

Min(a, b) == IF a <= b THEN a ELSE b
MaxOf(S) == CHOOSE x \in S : \A y \in S : y <= x

\* lines 223-233: the dictionary; a later assignment to a key replaces an
\* earlier one
render_results(arrs, all_task_cats, ths) ==
    LET rows(t) == 1 .. Min(Len(all_task_cats[t]), Len(arrs[t]))
        cols(t, i) == 1 .. Min(Len(ths), Len(arrs[t][i]))
        keys == UNION {UNION {{<<ths[j], t, Underscore(all_task_cats[t][i])>> :
                                  j \in cols(t, i)} : i \in rows(t)} :
                       t \in DOMAIN arrs}
        last_i(k) == MaxOf({i \in rows(k[2]) :
                              Underscore(all_task_cats[k[2]][i]) = k[3]})
        last_j(k) == MaxOf({j \in cols(k[2], last_i(k)) : ths[j] = k[1]})
    IN  [scores  |-> [k \in keys |-> arrs[k[2]][last_i(k)][last_j(k)]],
         average |-> RMean(arrs[TOTAL][1])]

-----------------------------------------------------------------------------
(* evaluate_lane_marking and its worker pool *)

None == <<>>
NoDict == [scores |-> <<>>, average |-> Zero]
NoArr == <<>>

RECURSIVE Insert(_, _)
Insert(x, s) ==
    IF s = <<>> THEN <<x>>
    ELSE IF x <= Head(s) THEN <<x>> \o s
    ELSE <<Head(s)>> \o Insert(x, Tail(s))

RECURSIVE Sorted(_)
Sorted(s) == IF s = <<>> THEN <<>> ELSE Insert(Head(s), Sorted(Tail(s)))

\* faulty variant of sorted_set, used to test the properties' sensitivity: sorted(bound_ths), duplicates kept
sorted_keep_duplicates(ths) == Sorted(ths)

\* line 240: sorted(set(bound_ths))
sorted_set(ths) == Ascending(Range(ths))

\* line 250: zip(gt_files, pred_files) stops at the shorter list
zip_files(gts, preds) ==
    [i \in 1 .. Min(Len(gts), Len(preds)) |-> <<gts[i], preds[i]>>]

CeilDiv(n, d) == (n + d - 1) \div d

\* Pool._get_tasks: chunk k holds the pairs (k-1)*chunksize+1 .. k*chunksize
chunk_pairs(pairs, k) ==
    SubSeq(pairs, (k - 1) * chunksize + 1, Min(k * chunksize, Len(pairs)))

\* lines 247-252: MapResult is sized by len() of the iterable, which tqdm
\* answers with total=len(gt_files)
expected_chunks(gts) == CeilDiv(Len(gts), chunksize)

\* mapstar in a worker: the results of a chunk up to the first pair that
\* raises; ok says no pair raised
run_chunk(chunk, ths, cats) ==
    LET bad == {i \in DOMAIN chunk : ~Decodable(chunk[i][1]) \/ ~Decodable(chunk[i][2])}
        stop == IF bad = {} THEN Len(chunk) + 1
                ELSE CHOOSE i \in bad : \A j \in bad : i <= j
    IN  [ok      |-> bad = {},
         ran     |-> Min(stop, Len(chunk)),
         results |-> [i \in 1 .. stop - 1 |->
                        eval_lane_per_frame(chunk[i][1], chunk[i][2], ths, cats)]]

\* list slice assignment value[lo:hi] = result (Python indices)
slice_assign(value, lo, hi, result) ==
    SubSeq(value, 1, Min(lo, Len(value))) \o result
        \o SubSeq(value, Min(hi, Len(value)) + 1, Len(value))

\* faulty variant of store_chunk, used to test the properties' sensitivity: results are kept in the order the chunks complete
store_chunk_unordered(value, k, result) ==
    SelectSeq(value, LAMBDA x : DOMAIN x # {}) \o result

\* MapResult._set on a successful chunk: where its results are stored
store_chunk(value, k, result) ==
    slice_assign(value, (k - 1) * chunksize, k * chunksize, result)

EvalIdle ==
    /\ pc = "idle" /\ sub_task_cats = InitialCats /\ request = <<>>
    /\ bound_ths = <<>> /\ gt_files = <<>> /\ pred_files = <<>> /\ nproc = 0
    /\ worker_cats = InitialCats /\ taskqueue = <<>> /\ busy = <<>>
    /\ map_value = <<>> /\ map_success = TRUE /\ number_left = 0
    /\ order = <<>> /\ scored = 0 /\ task2arr_list = <<>> /\ task2arr = NoArr
    /\ f_score_dict = NoDict /\ err = "" /\ calls = 0 /\ first_dict = NoDict
    /\ call_limit = 0

GtList(n, bad) ==
    [i \in 1 .. n |-> IF i = bad THEN 0 ELSE 1 + ((i - 1) % FrameW)]
PredList(n) == [i \in 1 .. n |-> 1 + (((i - 1) \div 2) % FrameW)]

Requests == UNION {[1 .. n -> -1 .. MaxTh] : n \in 1 .. MaxReq}

EvalInit(reqs, minfiles, maxfiles, procs, ncalls) ==
    /\ pc = "ready"
    /\ sub_task_cats = InitialCats
    /\ request \in reqs
    /\ bound_ths = <<>>
    /\ \E n \in minfiles .. maxfiles : \E bad \in 0 .. n :
       \E m \in 0 .. maxfiles + MaxDiff :
          /\ Abs(n - m) <= MaxDiff
          /\ gt_files = GtList(n, bad)
          /\ pred_files = PredList(m)
    /\ nproc \in procs
    /\ worker_cats = InitialCats /\ taskqueue = <<>> /\ busy = <<>>
    /\ map_value = <<>> /\ map_success = TRUE /\ number_left = 0
    /\ order = <<>> /\ scored = 0 /\ task2arr_list = <<>> /\ task2arr = NoArr
    /\ f_score_dict = NoDict /\ err = "" /\ calls = 0 /\ first_dict = NoDict
    /\ call_limit = ncalls

inputVars == <<request, gt_files, pred_files, nproc, call_limit>>

\* lines 240-252, up to the hand-over of the chunks to the pool
Call ==
    /\ pc \in {"ready", "returned", "raised"}
    /\ calls < call_limit
    /\ calls' = calls + 1
    /\ bound_ths' = sorted_set(request)
    /\ err' = IF \E i \in DOMAIN bound_ths' : ~(bound_ths'[i] >= 0)
              THEN "AssertionError" ELSE ""
    /\ pc' = IF err' = "" THEN "pool" ELSE "raised"
    /\ worker_cats' = sub_task_cats
    /\ taskqueue' = IF err' = "" THEN
                       [k \in 1 .. CeilDiv(Len(zip_files(gt_files, pred_files)),
                                           chunksize) |-> k]
                    ELSE <<>>
    /\ busy' = IF err' = "" THEN [w \in 1 .. nproc |-> 0] ELSE <<>>
    /\ map_value' = IF err' = "" THEN [i \in 1 .. Len(gt_files) |-> None] ELSE <<>>
    /\ map_success' = TRUE
    /\ number_left' = IF err' = "" THEN expected_chunks(gt_files) ELSE 0
    /\ order' = <<>>
    /\ scored' = 0
    /\ task2arr_list' = <<>>
    /\ task2arr' = NoArr
    /\ f_score_dict' = NoDict
    /\ UNCHANGED <<sub_task_cats, inputVars, first_dict>>
    /\ UNCHANGED <<catVars, motsVars>>

\* a worker process takes the next chunk from the task queue
WorkerTake(w) ==
    /\ pc = "pool"
    /\ busy[w] = 0
    /\ taskqueue # <<>>
    /\ busy' = [busy EXCEPT ![w] = Head(taskqueue)]
    /\ taskqueue' = Tail(taskqueue)
    /\ UNCHANGED <<pc, sub_task_cats, inputVars, bound_ths, worker_cats, map_value,
                   map_success, number_left, order, scored, task2arr_list,
                   task2arr, f_score_dict, err, calls, first_dict>>
    /\ UNCHANGED <<catVars, motsVars>>

\* the worker runs its chunk and MapResult._set stores what it sent back
WorkerFinish(w) ==
    /\ pc = "pool"
    /\ busy[w] # 0
    /\ LET k   == busy[w]
           out == run_chunk(chunk_pairs(zip_files(gt_files, pred_files), k),
                            bound_ths, worker_cats)
       IN  /\ scored' = scored + out.ran
           /\ number_left' = number_left - 1
           /\ order' = Append(order, k)
           /\ IF out.ok /\ map_success
              THEN /\ map_value' = store_chunk(map_value, k, out.results)
                   /\ UNCHANGED map_success
              ELSE IF ~out.ok /\ map_success
              THEN /\ map_success' = FALSE
                   /\ map_value' = "UnidentifiedImageError"
              ELSE UNCHANGED <<map_value, map_success>>
    /\ busy' = [busy EXCEPT ![w] = 0]
    /\ UNCHANGED <<pc, sub_task_cats, inputVars, bound_ths, worker_cats, taskqueue,
                   task2arr_list, task2arr, f_score_dict, err, calls, first_dict>>
    /\ UNCHANGED <<catVars, motsVars>>

\* lines 248-252: starmap returns, or raises what a worker raised, once every
\* expected chunk has reported
Collect ==
    /\ pc = "pool"
    /\ number_left = 0
    /\ IF map_success
       THEN /\ task2arr_list' = map_value
            /\ pc' = "merge"
            /\ UNCHANGED err
       ELSE /\ err' = map_value
            /\ pc' = "raised"
            /\ UNCHANGED task2arr_list
    /\ UNCHANGED <<sub_task_cats, inputVars, bound_ths, worker_cats, taskqueue, busy,
                   map_value, map_success, number_left, order, scored, task2arr,
                   f_score_dict, calls, first_dict>>
    /\ UNCHANGED <<catVars, motsVars>>

\* lines 253-262: merge, label, render and return
Report ==
    /\ pc = "merge"
    /\ IF task2arr_list = <<>>
       THEN \* np.stack of an empty list raises
            /\ err' = "ValueError"
            /\ pc' = "raised"
            /\ UNCHANGED <<sub_task_cats, task2arr, f_score_dict, first_dict>>
       ELSE /\ task2arr' = merge_results(task2arr_list)
            /\ sub_task_cats' = cats_after_call(sub_task_cats)
            /\ f_score_dict' = render_results(task2arr',
                                              all_task_cats_of(sub_task_cats),
                                              bound_ths)
            /\ first_dict' = IF calls = 1 THEN f_score_dict' ELSE first_dict
            /\ pc' = "returned"
            /\ UNCHANGED err
    /\ UNCHANGED <<inputVars, bound_ths, worker_cats, taskqueue, busy, map_value,
                   map_success, number_left, order, scored, task2arr_list, calls>>
    /\ UNCHANGED <<catVars, motsVars>>

EvalNext ==
    \/ Call
    \/ \E w \in DOMAIN busy : WorkerTake(w)
    \/ \E w \in DOMAIN busy : WorkerFinish(w)
    \/ Collect
    \/ Report

-----------------------------------------------------------------------------
(* mask_intersection_rate on the arrays of test_mask_intersection_rate *)

Side == 10
ABlock == 4
BBlock == 7

\* faulty variant of a_bitmask, used to test the properties' sensitivity: the block of 2s starts one row and column later
a_bitmask_off_by_one ==
    [r \in 0 .. Side - 1, c \in 0 .. Side - 1 |->
        IF r >= ABlock + 1 /\ c >= ABlock + 1 THEN 2 ELSE 1]

\* mots_test.py lines 22-23
a_bitmask ==
    [r \in 0 .. Side - 1, c \in 0 .. Side - 1 |->
        IF r >= ABlock /\ c >= ABlock THEN 2 ELSE 1]

\* mots_test.py lines 24-25
b_bitmask ==
    [r \in 0 .. Side - 1, c \in 0 .. Side - 1 |->
        IF r < BBlock /\ c < BBlock THEN 1 ELSE 2]

\* mots_test.py lines 28-29: the expected matrices
gt_ious == <<<<Rat(40, 73), Rat(24, 91)>>, <<Rat(9, 76), Rat(9, 20)>>>>
gt_ioas == <<<<Rat(40, 49), Rat(24, 51)>>, <<Rat(9, 49), Rat(27, 51)>>>>

\* the two arguments of the call: (a_bitmask, b_bitmask), or the two swapped
ArgA == IF m_swap THEN b_bitmask ELSE a_bitmask
ArgB == IF m_swap THEN a_bitmask ELSE b_bitmask

\* the instance ids of a label array, ascending (0 is background)
instance_ids(labels) ==
    Ascending({labels[p] : p \in DOMAIN labels} \ {0})

\* intersection / (area_A[i] + area_B[j] - intersection)
iou_of(inter, a_area, b_area) == Rat(inter, a_area + b_area - inter)

\* intersection / area_A[i]
ioa_of(inter, a_area, b_area) == Rat(inter, a_area)

MotsInit ==
    /\ m_pc = "scan"
    /\ m_swap \in BOOLEAN
    /\ m_pos = 0
    /\ joint = [i \in Range(instance_ids(ArgA)), j \in Range(instance_ids(ArgB)) |-> 0]
    /\ area_a = [i \in Range(instance_ids(ArgA)) |-> 0]
    /\ area_b = [j \in Range(instance_ids(ArgB)) |-> 0]
    /\ ious = <<>>
    /\ ioas = <<>>

\* the single pass over the pixels: one pixel enters the joint histogram
\* and the two area totals
MotsCount ==
    /\ m_pc = "scan"
    /\ m_pos < Side * Side
    /\ LET r == m_pos \div Side
           c == m_pos % Side
           a == ArgA[r, c]
           b == ArgB[r, c]
       IN  /\ area_a' = IF a > 0 THEN [area_a EXCEPT ![a] = @ + 1] ELSE area_a
           /\ area_b' = IF b > 0 THEN [area_b EXCEPT ![b] = @ + 1] ELSE area_b
           /\ joint' = IF a > 0 /\ b > 0 THEN [joint EXCEPT ![a, b] = @ + 1]
                       ELSE joint
    /\ m_pos' = m_pos + 1
    /\ UNCHANGED <<m_pc, m_swap, ious, ioas>>
    /\ UNCHANGED <<catVars, evalVars>>

\* the dense division that yields the two matrices
MotsDivide ==
    /\ m_pc = "scan"
    /\ m_pos = Side * Side
    /\ LET ids_a == instance_ids(ArgA)
           ids_b == instance_ids(ArgB)
       IN  /\ ious' = [i \in DOMAIN ids_a |-> [j \in DOMAIN ids_b |->
                         iou_of(joint[ids_a[i], ids_b[j]],
                                area_a[ids_a[i]], area_b[ids_b[j]])]]
           /\ ioas' = [i \in DOMAIN ids_a |-> [j \in DOMAIN ids_b |->
                         ioa_of(joint[ids_a[i], ids_b[j]],
                                area_a[ids_a[i]], area_b[ids_b[j]])]]
    /\ m_pc' = "done"
    /\ UNCHANGED <<m_swap, m_pos, joint, area_a, area_b>>
    /\ UNCHANGED <<catVars, evalVars>>

MotsNext ==
    \/ MotsCount
    \/ MotsDivide

MotsIdle ==
    /\ m_pc = "idle" /\ m_swap = FALSE /\ m_pos = 0 /\ joint = <<>>
    /\ area_a = <<>> /\ area_b = <<>> /\ ious = <<>> /\ ioas = <<>>

Init == EvalInit(Requests, 0, SmallFiles, {1}, MaxCalls) /\ CatIdle /\ MotsIdle
Next == EvalNext
Spec == Init /\ [][Next]_vars

PoolInit ==
    EvalInit({<<1, 0>>}, chunksize - 1, chunksize + ExtraFiles, 1 .. MaxProc, 1)
        /\ CatIdle /\ MotsIdle
SpecPool == PoolInit /\ [][Next]_vars

CatSpecInit == CatInit /\ EvalIdle /\ MotsIdle
SpecCat == CatSpecInit /\ [][CatNext]_vars

MotsSpecInit == MotsInit /\ CatIdle /\ EvalIdle
SpecMots == MotsSpecInit /\ [][MotsNext]_vars

-----------------------------------------------------------------------------
(* Properties of eval_lane_per_cat, checked under SpecCat *)

\* C1: when both mask arguments are all-zero every threshold scores 1.0, and
\* when exactly one of them is all-zero every threshold scores 0.0; in both
\* cases the list has one entry per threshold and no precision or recall
\* division was performed.
C1_DegenerateScores ==
    cat_pc = "done" =>
        /\ (gt_zero /\ pd_zero) =>
              /\ f_scores = [i \in DOMAIN cat_ths |-> One]
              /\ n_div = 0
        /\ (gt_zero # pd_zero) =>
              /\ f_scores = [i \in DOMAIN cat_ths |-> Zero]
              /\ n_div = 0

\* C1 witness: a call with an all-zero ground truth, a non-zero prediction
\* and at least two thresholds has returned.
C1_Witness ==
    /\ cat_pc = "done"
    /\ gt_zero /\ ~pd_zero
    /\ Len(cat_ths) >= 2
    /\ Len(f_scores) = Len(cat_ths)

\* C4: for two non-empty skeletons the F-scores do not decrease as the
\* threshold grows: t1 <= t2 implies F(t1) <= F(t2).
C4_Monotone ==
    (cat_pc \in {"loop", "done"} /\ gt_mask # {} /\ pd_mask # {}) =>
        \A i, j \in DOMAIN f_scores :
            cat_ths[i] <= cat_ths[j] => RLeq(f_scores[i], f_scores[j])

\* C4 witness: a call on non-empty skeletons returned three scores that
\* strictly increase with the threshold.
C4_Witness ==
    /\ cat_pc = "done"
    /\ gt_mask # {} /\ pd_mask # {}
    /\ Len(f_scores) >= 3
    /\ ~RLeq(f_scores[2], f_scores[1])
    /\ ~RLeq(f_scores[3], f_scores[2])

-----------------------------------------------------------------------------
(* Properties of evaluate_lane_marking *)

SubmittedPairs == zip_files(gt_files, pred_files)

PairRaises(pair) == ~Decodable(pair[1]) \/ ~Decodable(pair[2])

\* what a single process scoring the pairs one after the other produces
SequentialResults ==
    [i \in DOMAIN SubmittedPairs |->
        eval_lane_per_frame(SubmittedPairs[i][1], SubmittedPairs[i][2],
                            bound_ths, worker_cats)]

\* the across-frames mean score (in percent) of row c of sub-task t at the
\* j-th threshold
ExpectedCat(t, c, j) ==
    RMul(RMean([f \in DOMAIN task2arr_list |-> task2arr_list[f][t][c][j]]),
         Rat(100, 1))

\* the mean over the categories c of sub-task t that were scored
ExpectedTaskMean(t, j) ==
    RMean([c \in DOMAIN task2arr_list[1][t] |-> ExpectedCat(t, c, j)])

ExpectedTotal ==
    [j \in DOMAIN bound_ths |->
        RMean([k \in 1 .. 3 |->
                 ExpectedTaskMean(<<"direction", "style", "category">>[k], j)])]

\* C2: after merge_results the TOTAL row holds, per threshold, the mean over
\* the sub-tasks of the sub-task's mean over its categories, and the
\* returned average is the mean of the TOTAL row.
C2_TotalIsMeanOfTaskMeans ==
    pc = "returned" =>
        /\ task2arr[TOTAL] = <<ExpectedTotal>>
        /\ f_score_dict.average = RMean(task2arr[TOTAL][1])

\* C3: in the returned dictionary the entry of threshold, sub-task and
\* category holds that category's across-frames mean, and the entry of
\* threshold, sub-task and "avg" holds the mean of those over the categories.
C3_KeysAligned ==
    pc = "returned" =>
        \A j \in DOMAIN bound_ths : \A t \in TaskNames :
            /\ \A c \in DOMAIN InitialCats[t] :
                  LET key == <<bound_ths[j], t, Underscore(InitialCats[t][c])>>
                  IN  /\ key \in DOMAIN f_score_dict.scores
                      /\ f_score_dict.scores[key] = ExpectedCat(t, c, j)
            /\ LET key == <<bound_ths[j], t, AVG>>
               IN  /\ key \in DOMAIN f_score_dict.scores
                   /\ f_score_dict.scores[key] =
                         RMean([c \in DOMAIN InitialCats[t] |-> ExpectedCat(t, c, j)])

\* C5: when the two file lists differ in count no frame pair is ever scored
\* and no score dictionary is returned.
C5_MismatchRejected ==
    Len(gt_files) # Len(pred_files) =>
        /\ scored = 0
        /\ pc # "returned"
        /\ f_score_dict = NoDict

\* C6: whatever the pool size and the order in which the workers take and
\* finish chunks, the list handed to merge_results holds exactly one result
\* per submitted pair in submission order, so the returned scores are those
\* of a sequential run.
C6_OrderPreserved ==
    /\ pc \in {"merge", "returned"} => task2arr_list = SequentialResults
    /\ pc = "returned" =>
          f_score_dict = render_results(merge_results(SequentialResults),
                                        all_task_cats_of(worker_cats), bound_ths)

\* C6 witness: with at least two workers the second chunk completed before
\* the first, and starmap returned a list longer than one chunk.
C6_Witness ==
    /\ pc = "merge"
    /\ nproc >= 2
    /\ Len(order) >= 2
    /\ order[1] > order[2]
    /\ Len(task2arr_list) > chunksize

\* C7: when a frame pair raises inside a worker the call never merges or
\* returns scores, and the failure reaches the caller: the call has raised
\* it, or a step of the pool towards raising it is still possible.
C7_FailureSurfaces ==
    /\ (\E i \in DOMAIN SubmittedPairs : PairRaises(SubmittedPairs[i])) =>
          /\ pc \notin {"merge", "returned"}
          /\ f_score_dict = NoDict
    /\ (pc = "pool" /\ ~map_success) =>
          \/ number_left = 0
          \/ taskqueue # <<>>
          \/ \E w \in DOMAIN busy : busy[w] # 0
    /\ (pc = "raised" /\ ~map_success) => err = "UnidentifiedImageError"

\* C9: the thresholds evaluated are the distinct requested ones in
\* ascending order, every score vector has one entry per distinct threshold
\* and its i-th entry is the score at the i-th smallest one, and a negative
\* threshold is rejected before any frame is scored.
C9_Thresholds ==
    /\ calls >= 1 =>
          /\ Range(bound_ths) = Range(request)
          /\ \A i, j \in DOMAIN bound_ths : i < j => bound_ths[i] < bound_ths[j]
    /\ (\E i \in DOMAIN request : request[i] < 0) =>
          /\ scored = 0
          /\ \A w \in DOMAIN busy : busy[w] = 0
          /\ calls >= 1 => (pc = "raised" /\ err = "AssertionError")
    /\ pc \in {"merge", "returned"} =>
          \A f \in DOMAIN task2arr_list : \A t \in TaskNames :
              \A c \in DOMAIN task2arr_list[f][t] :
                  LET row == task2arr_list[f][t][c]
                      gt  == class_mask(ImageOf(gt_files[f]), t, c - 1)
                      pd  == class_mask(ImageOf(pred_files[f]), t, c - 1)
                  IN  /\ Len(row) = Cardinality(Range(request))
                      /\ \A i \in DOMAIN row :
                            row[i] = eval_lane_per_cat(gt, pd,
                                        <<Ascending(Range(request))[i]>>,
                                        FramePixels)[1]

\* C9 witness: a call whose thresholds were requested in descending order
\* returned scores that differ between the two thresholds.
C9_Witness ==
    /\ pc = "returned"
    /\ Len(request) = 2
    /\ request[1] > request[2]
    /\ \E f \in DOMAIN task2arr_list : \E t \in TaskNames :
          \E c \in DOMAIN task2arr_list[f][t] :
              task2arr_list[f][t][c][1] # task2arr_list[f][t][c][2]

\* C10: a call leaves the module-level category lists as they were, and a
\* second call on the same inputs returns the dictionary of the first.
C10_CatsUnchanged ==
    /\ sub_task_cats = InitialCats
    /\ worker_cats = InitialCats
    /\ (pc = "returned" /\ calls >= 2 /\ first_dict # NoDict) =>
          f_score_dict = first_dict

-----------------------------------------------------------------------------
(* Properties of mask_intersection_rate, checked under SpecMots *)

====
